---- MODULE Spec2Model ----
(***************************************************************************)
(* Model of grid/load/bigtable/load_data.go: the bulk loader that reads    *)
(* the TestRun list from the datastore, starts one goroutine per run,      *)
(* limits the goroutines with a weighted semaphore, fetches and decodes    *)
(* each run's JSON report, encodes it into BigTable mutations, writes the  *)
(* mutations with ApplyBulk in batches, and is watched by a heap monitor.  *)
(***************************************************************************)
EXTENDS Integers, Sequences, FiniteSets, TLC

(***************************************************************************)
(* Program constants (scaled) and bounds of the model.                     *)
(***************************************************************************)
numConcurrentRuns == 2
maxMutationsPerBatch == 3
maxHeapAlloc == 45

MaxRuns == 3
SiblingRuns == 2
MaxResults == 2
MaxSubs == 2

(***************************************************************************)
(* Data: run descriptors, reports, HTTP outcomes.                          *)
(* A *string is a sequence: <<>> is nil, <<s>> points to the string s.     *)
(***************************************************************************)
NilStr == <<>>
Ptr(s) == <<s>>

Tests == {"a", "b"}
ResultStatuses == {"OK"}
SubStatuses == {"PASS", "FAIL"}
ResultMessages == {NilStr, Ptr(""), Ptr("m")}
SubMessages == {NilStr, Ptr(""), Ptr("n")}
SubNames == {"s", "t"}

SeqsUpTo(S, n) == UNION {[1..k -> S] : k \in 0..n}

SubTestSet == [Name : SubNames, Status : SubStatuses, Message : SubMessages]

TestResultsSet ==
  [Test : Tests, Status : ResultStatuses, Message : ResultMessages,
   Subtests : SeqsUpTo(SubTestSet, MaxSubs)]

\* Results without messages and with one sub-test shape: only the test and
\* the number of cells differ between them.
PlainSub == [Name |-> "s", Status |-> "PASS", Message |-> NilStr]

PlainResultsSet ==
  {[Test |-> t, Status |-> "OK", Message |-> NilStr, Subtests |-> [i \in 1..k |-> PlainSub]] :
     t \in Tests, k \in 0..MaxSubs}

\* Every shape of one result of the test "a".
RichResultsSet == {res \in TestResultsSet : res.Test = "a"}

\* What http.Get, ioutil.ReadAll and json.Unmarshal yield for a run's URL.
SkipKinds == {"getError", "notOK", "readError", "unmarshalError"}

SkipOutcomes == {[kind |-> k, Results |-> <<>>] : k \in SkipKinds}

ReportOutcomes(S, n) == {[kind |-> "report", Results |-> rs] : rs \in SeqsUpTo(S, n)}

\* time.Time of the run's creation: seconds and nanoseconds.
CreatedAtOf(i) == [sec |-> i, nsec |-> 0]

StoredRun(i) ==
  [BrowserName |-> "chrome", BrowserVersion |-> "70", OSName |-> "linux",
   OSVersion |-> "5", FullRevisionHash |-> "abc", CreatedAt |-> CreatedAtOf(i),
   RawResultsURL |-> i]

outputBTFamily == "runs"

(***************************************************************************)
(* Pure functions of the program.                                          *)
(***************************************************************************)
\* CreatedAt.UTC().Format(time.RFC3339): second resolution, nanoseconds dropped.
FormatRFC3339(t) == "T" \o ToString(t.sec) \o "Z"

runIDNoTime(run) ==
  run.BrowserName \o "-" \o run.BrowserVersion \o "-" \o run.OSName \o "-" \o
  run.OSVersion \o "@" \o run.FullRevisionHash

runID(run) ==
  run.BrowserName \o "-" \o run.BrowserVersion \o "-" \o run.OSName \o "-" \o
  run.OSVersion \o "@" \o run.FullRevisionHash \o "#" \o FormatRFC3339(run.CreatedAt)

\* sub is <<>> for nil, <<s>> for a pointer to the sub-test s.
rowID(res, sub) ==
  IF sub = <<>> THEN res.Test ELSE res.Test \o ":" \o sub[1].Name

colID(run) == runID(run)

HasMessage(m) == m # NilStr /\ m[1] # ""

\* The []byte argument of the set(...) call made for result res and, when
\* res has sub-tests, its sub-test sub.
ValueSwapped(res, sub) ==
  IF sub = <<>>
  THEN IF HasMessage(res.Message)
       THEN res.Status \o "#" \o res.Message[1]
       ELSE res.Status
  ELSE IF HasMessage(res.Message)
       THEN IF HasMessage(sub[1].Message)
            THEN res.Status \o "#" \o res.Message[1] \o "$" \o sub[1].Status
            ELSE res.Status \o "#" \o res.Message[1] \o "$" \o sub[1].Status \o "#" \o sub[1].Message[1]
       ELSE IF HasMessage(sub[1].Message)
            THEN res.Status \o "$" \o sub[1].Status \o "#" \o sub[1].Message[1]
            ELSE res.Status \o "$" \o sub[1].Status

Value(res, sub) ==
  IF sub = <<>>
  THEN IF HasMessage(res.Message)
       THEN res.Status \o "#" \o res.Message[1]
       ELSE res.Status
  ELSE IF HasMessage(res.Message)
       THEN IF HasMessage(sub[1].Message)
            THEN res.Status \o "#" \o res.Message[1] \o "$" \o sub[1].Status \o "#" \o sub[1].Message[1]
            ELSE res.Status \o "#" \o res.Message[1] \o "$" \o sub[1].Status
       ELSE IF HasMessage(sub[1].Message)
            THEN res.Status \o "$" \o sub[1].Status \o "#" \o sub[1].Message[1]
            ELSE res.Status \o "$" \o sub[1].Status

RowArgQualified(res, sub) == rowID(res, sub)

\* The row argument of the set(...) call: every call site passes rowID(res, nil).
RowArg(res, sub) == rowID(res, <<>>)

(***************************************************************************)
(* State.                                                                  *)
(***************************************************************************)
VARIABLES
  proc,      \* "running", "exited" (main returned) or the cause of log.Fatal
  mainPC,    \* position of main
  store,     \* the TestRun entities of the datastore, ordered by CreatedAt
  web,       \* what each run's RawResultsURL serves
  runs,      \* testRuns of getRuns, then runs of main
  next,      \* index of the dispatch loop over runs
  reported,  \* the count logged by "Finished processing", -1 before
  sem,       \* the weighted semaphore: cur and the FIFO list of waiters
  permits,   \* permits held by main (0) and by each goroutine
  tpc,       \* position of each run's goroutine
  report,    \* report.Results of each goroutine
  ri, si,    \* position of the loops over report.Results and res.Subtests
  rows, muts,\* the pending batch of each goroutine
  calls,     \* the ApplyBulk calls each goroutine has issued, in order
  applyRes,  \* how the goroutine's last ApplyBulk call returned
  monPC,     \* position of monitor
  heap       \* stats.HeapAlloc as last read by monitor

vars == <<proc, mainPC, store, web, runs, next, reported, sem, permits, tpc,
          report, ri, si, rows, muts, calls, applyRes, monPC, heap>>

mainVars == <<mainPC, runs, next, reported>>
taskVars == <<tpc, report, ri, si, rows, muts, calls, applyRes>>
monVars == <<monPC, heap>>
envVars == <<store, web>>

RunIds == 1..MaxRuns
Main == 0

ts == 1000
HeapSamples == {maxHeapAlloc, maxHeapAlloc + 1}
ApplyOutcomes == {"ok", "errs", "err"}

Running == proc = "running"

(***************************************************************************)
(* golang.org/x/sync/semaphore as main uses it.                            *)
(***************************************************************************)
SemSizeOneMore == numConcurrentRuns + 1

\* semaphore.NewWeighted(numConcurrentRuns)
SemSize == numConcurrentRuns

\* Acquire succeeds at once when the units are free and nobody waits.
CanAcquire(s, n) == SemSize - s.cur >= n /\ s.waiters = <<>>

RECURSIVE NotifyWaiters(_)
\* Release's notifyWaiters: grant the waiters in FIFO order, stop at the
\* first one that does not fit.
NotifyWaiters(s) ==
  IF s.waiters = <<>> THEN s
  ELSE IF SemSize - s.cur < Head(s.waiters).n THEN s
  ELSE NotifyWaiters([cur |-> s.cur + Head(s.waiters).n, waiters |-> Tail(s.waiters)])

SemReleaseNoNotify(s, n) == [s EXCEPT !.cur = @ - n]

\* Release: give the units back, then notifyWaiters.
SemRelease(s, n) == NotifyWaiters([s EXCEPT !.cur = @ - n])

\* The waiters that the release of n units wakes up.
Woken(s, n) ==
  LET k == Len(s.waiters) - Len(SemRelease(s, n).waiters)
  IN {s.waiters[i].who : i \in 1..k}

(***************************************************************************)
(* Initial states. Three families of inputs: run lists of every length up  *)
(* to MaxRuns whose reports are skipped or need two ApplyBulk calls (Spec);*)
(* SiblingRuns runs with every skip cause and short and long reports       *)
(* (SpecSiblings); one run with every report (SpecTask).                   *)
(***************************************************************************)
InitControl ==
  /\ proc = "running"
  /\ mainPC = "dsClient"
  /\ runs = <<>>
  /\ next = 1
  /\ reported = -1
  /\ sem = [cur |-> 0, waiters |-> <<>>]
  /\ permits = [w \in RunIds \cup {Main} |-> 0]
  /\ tpc = [r \in RunIds |-> "none"]
  /\ report = [r \in RunIds |-> <<>>]
  /\ ri = [r \in RunIds |-> 1]
  /\ si = [r \in RunIds |-> 1]
  /\ rows = [r \in RunIds |-> <<>>]
  /\ muts = [r \in RunIds |-> <<>>]
  /\ calls = [r \in RunIds |-> <<>>]
  /\ applyRes = [r \in RunIds |-> "none"]
  /\ monPC = "read"
  /\ heap = 0

PlainResult(k) ==
  [Test |-> "a", Status |-> "OK", Message |-> NilStr, Subtests |-> [i \in 1..k |-> PlainSub]]

\* A report of maxMutationsPerBatch + 1 cells.
LongReport ==
  [kind |-> "report", Results |-> <<PlainResult(maxMutationsPerBatch), PlainResult(0)>>]

ShortReport == [kind |-> "report", Results |-> <<PlainResult(0)>>]

EmptyReport == [kind |-> "report", Results |-> <<>>]

SchedOutcomes == {[kind |-> "notOK", Results |-> <<>>], LongReport}

SiblingOutcomes == SkipOutcomes \cup {EmptyReport, ShortReport, LongReport}

TaskOutcomes ==
  SkipOutcomes \cup ReportOutcomes(PlainResultsSet, MaxResults)
               \cup ReportOutcomes(RichResultsSet, 1)

Init ==
  /\ \E n \in 0..MaxRuns :
       /\ store = [i \in 1..n |-> StoredRun(i)]
       /\ web \in [1..n -> SchedOutcomes]
  /\ InitControl

InitSiblings ==
  /\ store = [i \in 1..SiblingRuns |-> StoredRun(i)]
  /\ web \in [1..SiblingRuns -> SiblingOutcomes]
  /\ InitControl

InitTask ==
  /\ store = [i \in 1..1 |-> StoredRun(i)]
  /\ web \in [1..1 -> TaskOutcomes]
  /\ InitControl

\* Browser name and version of a TestRun entity.
RunShapes == {<<"chrome", "70">>, <<"chrome", "70-1">>, <<"chrome-70", "1">>}

\* CreatedAt values: two instants of one second and one of the next.
CreatedAts == {[sec |-> 1, nsec |-> 0], [sec |-> 1, nsec |-> 5], [sec |-> 2, nsec |-> 0]}

Before(t, u) == t.sec < u.sec \/ (t.sec = u.sec /\ t.nsec <= u.nsec)

RunOf(shape, t, url) ==
  [BrowserName |-> shape[1], BrowserVersion |-> shape[2], OSName |-> "linux",
   OSVersion |-> "5", FullRevisionHash |-> "abc", CreatedAt |-> t,
   RawResultsURL |-> url]

\* Two TestRun entities in the order of the query, Order("CreatedAt").
ColumnStores ==
  {<<RunOf(s1, t1, 1), RunOf(s2, t2, 2)>> :
     <<s1, t1, s2, t2>> \in {q \in RunShapes \X CreatedAts \X RunShapes \X CreatedAts :
                               Before(q[2], q[4])}}

InitColumns ==
  /\ store \in ColumnStores
  /\ web \in [1..2 -> {ShortReport, LongReport}]
  /\ InitControl

\* Run lists of every length up to MaxRuns: every other run has a report
\* that needs two ApplyBulk calls, the runs between are skipped after the
\* fetch.
FairOutcome(i) == IF i % 2 = 1 THEN LongReport ELSE [kind |-> "notOK", Results |-> <<>>]

InitFair ==
  /\ \E n \in 0..MaxRuns :
       /\ store = [i \in 1..n |-> StoredRun(i)]
       /\ web = [i \in 1..n |-> FairOutcome(i)]
  /\ InitControl

\* The report of the three-run scenario: two results, the first with one
\* sub-result.
ScenarioReport ==
  [kind |-> "report",
   Results |-> <<[Test |-> "a", Status |-> "OK", Message |-> NilStr, Subtests |-> <<PlainSub>>],
                 [Test |-> "b", Status |-> "OK", Message |-> NilStr, Subtests |-> <<>>]>>]

ScenarioOutcomes ==
  {[kind |-> "notOK", Results |-> <<>>], [kind |-> "unmarshalError", Results |-> <<>>],
   ScenarioReport, LongReport}

\* Three runs, each serving a 404, malformed JSON, the scenario's report or
\* a long report.
InitScenario ==
  /\ store = [i \in 1..3 |-> StoredRun(i)]
  /\ web \in [1..3 -> ScenarioOutcomes]
  /\ InitControl

(***************************************************************************)
(* monitor: one tick reads the heap and either kills the process or logs   *)
(* and sleeps.                                                             *)
(***************************************************************************)
OverLimitOrEqual(h) == h >= maxHeapAlloc

\* if stats.HeapAlloc > maxHeapAlloc
OverLimit(h) == h > maxHeapAlloc

MonitorRead ==
  /\ Running
  /\ monPC = "read"
  /\ \E h \in HeapSamples :
       /\ heap' = h
       /\ IF OverLimit(h)
          THEN proc' = "outOfMemory" /\ monPC' = monPC
          ELSE proc' = proc /\ monPC' = "sleep"
  /\ UNCHANGED <<mainVars, taskVars, envVars, sem, permits>>

MonitorSleep ==
  /\ Running
  /\ monPC = "sleep"
  /\ monPC' = "read"
  /\ UNCHANGED <<proc, heap, mainVars, taskVars, envVars, sem, permits>>

(***************************************************************************)
(* main up to the dispatch loop.                                           *)
(***************************************************************************)
\* datastore.NewClient and bigtable.NewClient: log.Fatal on error.
NewClient(at, then) ==
  /\ Running
  /\ mainPC = at
  /\ \E ok \in BOOLEAN :
       IF ok THEN mainPC' = then /\ proc' = proc
             ELSE mainPC' = mainPC /\ proc' = "clientFailed"
  /\ UNCHANGED <<runs, next, reported, taskVars, monVars, envVars, sem, permits>>

MainDsClient == NewClient("dsClient", "btClient")

MainBtClient == NewClient("btClient", "getRuns")

\* What getRuns does when it.Next returns an error other than iterator.Done.
GetRunsErrorBreaks ==
  /\ mainPC' = "dispatch"
  /\ proc' = proc

GetRunsError ==
  /\ mainPC' = mainPC
  /\ proc' = "queryFailed"

\* One it.Next of getRuns: the next entity, iterator.Done, or an error.
GetRunsNext ==
  /\ Running
  /\ mainPC = "getRuns"
  /\ \/ /\ Len(runs) < Len(store)
        /\ runs' = Append(runs, store[Len(runs) + 1])
        /\ UNCHANGED <<mainPC, proc>>
     \/ /\ Len(runs) = Len(store)
        /\ runs' = runs
        /\ mainPC' = "dispatch"
        /\ proc' = proc
     \/ /\ runs' = runs
        /\ GetRunsError
  /\ UNCHANGED <<next, reported, taskVars, monVars, envVars, sem, permits>>

\* One iteration of "for _, run := range runs": the go statement.
MainSpawn ==
  /\ Running
  /\ mainPC = "dispatch"
  /\ next <= Len(runs)
  /\ tpc' = [tpc EXCEPT ![next] = "spawned"]
  /\ next' = next + 1
  /\ UNCHANGED <<proc, mainPC, runs, reported, report, ri, si, rows, muts, calls,
                 applyRes, monVars, envVars, sem, permits>>

\* sem.Acquire(ctx, numConcurrentRuns) after the loop.
MainAcquireAll ==
  /\ Running
  /\ mainPC = "dispatch"
  /\ next > Len(runs)
  /\ IF CanAcquire(sem, numConcurrentRuns)
     THEN /\ sem' = [sem EXCEPT !.cur = @ + numConcurrentRuns]
          /\ permits' = [permits EXCEPT ![Main] = @ + numConcurrentRuns]
          /\ mainPC' = "report"
     ELSE /\ sem' = [sem EXCEPT !.waiters = Append(@, [who |-> Main, n |-> numConcurrentRuns])]
          /\ permits' = permits
          /\ mainPC' = "drainWait"
  /\ UNCHANGED <<proc, runs, next, reported, taskVars, monVars, envVars>>

ReportedCountWritten == Cardinality({r \in RunIds : calls[r] # <<>>})

\* The count of the "Finished processing" line: len(runs).
ReportedCount == Len(runs)

\* log.Printf("INFO: Finished processing %d runs", len(runs)) and return.
MainReport ==
  /\ Running
  /\ mainPC = "report"
  /\ reported' = ReportedCount
  /\ proc' = "exited"
  /\ mainPC' = "returned"
  /\ UNCHANGED <<runs, next, taskVars, monVars, envVars, sem, permits>>

(***************************************************************************)
(* The goroutine of one run.                                               *)
(***************************************************************************)
\* sem.Acquire(ctx, 1), the goroutine's first statement.
TaskAcquire(r) ==
  /\ Running
  /\ tpc[r] = "spawned"
  /\ IF CanAcquire(sem, 1)
     THEN /\ sem' = [sem EXCEPT !.cur = @ + 1]
          /\ permits' = [permits EXCEPT ![r] = @ + 1]
          /\ tpc' = [tpc EXCEPT ![r] = "fetch"]
     ELSE /\ sem' = [sem EXCEPT !.waiters = Append(@, [who |-> r, n |-> 1])]
          /\ permits' = permits
          /\ tpc' = [tpc EXCEPT ![r] = "waiting"]
  /\ UNCHANGED <<proc, mainVars, report, ri, si, rows, muts, calls, applyRes,
                 monVars, envVars>>

\* The goroutine returns: the deferred sem.Release(1) runs and wakes waiters.
TaskRelease(r) ==
  /\ Running
  /\ tpc[r] = "release"
  /\ LET woken == Woken(sem, 1) IN
       /\ sem' = SemRelease(sem, 1)
       /\ permits' = [w \in RunIds \cup {Main} |->
                        IF w = r THEN permits[w] - 1
                        ELSE IF w \in woken THEN permits[w] + (IF w = Main THEN numConcurrentRuns ELSE 1)
                        ELSE permits[w]]
       /\ tpc' = [t \in RunIds |->
                    IF t = r THEN "done" ELSE IF t \in woken THEN "fetch" ELSE tpc[t]]
       /\ mainPC' = IF Main \in woken THEN "report" ELSE mainPC
  /\ UNCHANGED <<proc, runs, next, reported, report, ri, si, rows, muts, calls,
                 applyRes, monVars, envVars>>

\* The five early returns of the goroutine.
Skippable(out) == out.kind \in SkipKinds \/ Len(out.Results) = 0

ReturnSkippedNoDefer(r) ==
  /\ tpc' = [tpc EXCEPT ![r] = "done"]
  /\ proc' = proc

ReturnSkippedFatal(r) ==
  /\ tpc' = tpc
  /\ proc' = "skipFailed"

\* log.Printf("WARN: ...") and return; the deferred release is still to run.
ReturnSkipped(r) ==
  /\ tpc' = [tpc EXCEPT ![r] = "release"]
  /\ proc' = proc

\* http.Get, the status check, ioutil.ReadAll, json.Unmarshal, the empty check.
TaskFetch(r) ==
  /\ Running
  /\ tpc[r] = "fetch"
  /\ LET out == web[runs[r].RawResultsURL] IN
       IF Skippable(out)
       THEN /\ ReturnSkipped(r)
            /\ report' = report
       ELSE /\ tpc' = [tpc EXCEPT ![r] = "encode"]
            /\ proc' = proc
            /\ report' = [report EXCEPT ![r] = out.Results]
  /\ UNCHANGED <<mainVars, ri, si, rows, muts, calls, applyRes, monVars, envVars,
                 sem, permits>>

\* The result and sub-test the loops of the goroutine are at.
CurRes(r) == report[r][ri[r]]

CurSub(r) ==
  IF Len(CurRes(r).Subtests) = 0 THEN <<>> ELSE <<CurRes(r).Subtests[si[r]]>>

\* The row and the mutation of the set(...) call at the current position.
CurRow(r) == RowArg(CurRes(r), CurSub(r))

CurMutFirstRun(r) ==
  [family |-> outputBTFamily, column |-> colID(runs[1]), ts |-> ts,
   value |-> Value(CurRes(r), CurSub(r))]

\* bigtable.NewMutation() and mut.Set(*outputBTFamily, colID(run), ts, value)
CurMut(r) ==
  [family |-> outputBTFamily, column |-> colID(runs[r]), ts |-> ts,
   value |-> Value(CurRes(r), CurSub(r))]

AdvanceFirstSubOnly(r) ==
  /\ si' = [si EXCEPT ![r] = 1]
  /\ ri' = [ri EXCEPT ![r] = @ + 1]
  /\ tpc' = [tpc EXCEPT ![r] = IF ri[r] < Len(report[r]) THEN "encode" ELSE "flush"]

\* The loops move on to the next sub-test, the next result, or end.
Advance(r) ==
  IF Len(CurRes(r).Subtests) # 0 /\ si[r] < Len(CurRes(r).Subtests)
  THEN /\ si' = [si EXCEPT ![r] = @ + 1]
       /\ ri' = ri
       /\ tpc' = [tpc EXCEPT ![r] = "encode"]
  ELSE /\ si' = [si EXCEPT ![r] = 1]
       /\ ri' = [ri EXCEPT ![r] = @ + 1]
       /\ tpc' = [tpc EXCEPT ![r] = IF ri[r] < Len(report[r]) THEN "encode" ELSE "flush"]

BatchFullWhenOver(n) == n > maxMutationsPerBatch

\* if len(muts) == maxMutationsPerBatch
BatchFull(n) == n = maxMutationsPerBatch

ResetUnlessFailed(batch, outcome) == IF outcome = "ok" THEN <<>> ELSE batch

\* muts = make(...); rows = make(...) after the ApplyBulk of set, whatever it returned.
ResetBatch(batch, outcome) == <<>>

\* set(...): either the batch is full and ApplyBulk is called, or the cell is appended.
TaskSet(r) ==
  /\ Running
  /\ tpc[r] = "encode"
  /\ IF BatchFull(Len(muts[r]))
     THEN /\ calls' = [calls EXCEPT ![r] = Append(@, [rows |-> rows[r], muts |-> muts[r], final |-> FALSE])]
          /\ tpc' = [tpc EXCEPT ![r] = "apply"]
          /\ UNCHANGED <<rows, muts, ri, si>>
     ELSE /\ muts' = [muts EXCEPT ![r] = Append(@, CurMut(r))]
          /\ rows' = [rows EXCEPT ![r] = Append(@, CurRow(r))]
          /\ calls' = calls
          /\ Advance(r)
  /\ UNCHANGED <<proc, mainVars, report, applyRes, monVars, envVars, sem, permits>>

\* The ApplyBulk of set returns: log, reset the batch, append the cell.
TaskApplyReturn(r) ==
  /\ Running
  /\ tpc[r] = "apply"
  /\ \E o \in ApplyOutcomes :
       /\ applyRes' = [applyRes EXCEPT ![r] = o]
       /\ muts' = [muts EXCEPT ![r] = Append(ResetBatch(@, o), CurMut(r))]
       /\ rows' = [rows EXCEPT ![r] = Append(ResetBatch(@, o), CurRow(r))]
  /\ Advance(r)
  /\ UNCHANGED <<proc, mainVars, report, calls, monVars, envVars, sem, permits>>

FinalFlushWhenFull(n) == n = maxMutationsPerBatch

\* if len(muts) > 0, after the loops
FinalFlushNeeded(n) == n > 0

\* The ApplyBulk after the loops is called, or there is nothing to write.
TaskFinalFlush(r) ==
  /\ Running
  /\ tpc[r] = "flush"
  /\ IF FinalFlushNeeded(Len(muts[r]))
     THEN /\ calls' = [calls EXCEPT ![r] = Append(@, [rows |-> rows[r], muts |-> muts[r], final |-> TRUE])]
          /\ tpc' = [tpc EXCEPT ![r] = "finalApply"]
     ELSE /\ calls' = calls
          /\ tpc' = [tpc EXCEPT ![r] = "release"]
  /\ UNCHANGED <<proc, mainVars, report, ri, si, rows, muts, applyRes, monVars,
                 envVars, sem, permits>>

\* The ApplyBulk after the loops returns: log, then the goroutine returns.
TaskFinalReturn(r) ==
  /\ Running
  /\ tpc[r] = "finalApply"
  /\ \E o \in ApplyOutcomes : applyRes' = [applyRes EXCEPT ![r] = o]
  /\ tpc' = [tpc EXCEPT ![r] = "release"]
  /\ UNCHANGED <<proc, mainVars, report, ri, si, rows, muts, calls, monVars,
                 envVars, sem, permits>>

(***************************************************************************)
(* Specifications.                                                         *)
(***************************************************************************)
Next ==
  \/ MonitorRead
  \/ MonitorSleep
  \/ MainDsClient
  \/ MainBtClient
  \/ GetRunsNext
  \/ MainSpawn
  \/ MainAcquireAll
  \/ MainReport
  \/ \E r \in RunIds : TaskAcquire(r)
  \/ \E r \in RunIds : TaskFetch(r)
  \/ \E r \in RunIds : TaskSet(r)
  \/ \E r \in RunIds : TaskApplyReturn(r)
  \/ \E r \in RunIds : TaskFinalFlush(r)
  \/ \E r \in RunIds : TaskFinalReturn(r)
  \/ \E r \in RunIds : TaskRelease(r)

Spec == Init /\ [][Next]_vars

SpecSiblings == InitSiblings /\ [][Next]_vars

SpecTask == InitTask /\ [][Next]_vars

SpecScenario == InitScenario /\ [][Next]_vars

SpecColumns == InitColumns /\ [][Next]_vars

\* The steps of main and of the goroutines it starts.
Progress ==
  \/ MainDsClient
  \/ MainBtClient
  \/ GetRunsNext
  \/ MainSpawn
  \/ MainAcquireAll
  \/ MainReport
  \/ \E r \in RunIds : TaskAcquire(r)
  \/ \E r \in RunIds : TaskFetch(r)
  \/ \E r \in RunIds : TaskSet(r)
  \/ \E r \in RunIds : TaskApplyReturn(r)
  \/ \E r \in RunIds : TaskFinalFlush(r)
  \/ \E r \in RunIds : TaskFinalReturn(r)
  \/ \E r \in RunIds : TaskRelease(r)

\* The Go scheduler runs a runnable goroutine; a fetch and an ApplyBulk
\* call return. The monitor is left free to end the process or not.
FairSpec == InitFair /\ [][Next]_vars /\ WF_vars(Progress)

(***************************************************************************)
(* Vocabulary of the properties.                                           *)
(***************************************************************************)
Enumerated == 1..Len(runs)

Tasks == RunIds \cup {Main}

\* The goroutine is between its sem.Acquire and its deferred sem.Release.
Holding(r) == tpc[r] \in {"fetch", "encode", "apply", "flush", "finalApply", "release"}

\* The go statement has run and the goroutine has not returned.
Live(r) == tpc[r] \notin {"none", "done"}

InFlightApply(r) == tpc[r] \in {"apply", "finalApply"}

Ended(r) == tpc[r] = "done"

Completed == reported # -1

RECURSIVE SumOver(_, _)
SumOver(f, S) ==
  IF S = {} THEN 0
  ELSE LET x == CHOOSE y \in S : TRUE IN f[x] + SumOver(f, S \ {x})

\* What the URL of run r serves.
Served(r) == web[store[r].RawResultsURL]

(***************************************************************************)
(* C1. Drain guarantee: when main has logged "Finished processing", every  *)
(* enumerated run's goroutine has returned (skipped, or written its last   *)
(* batch, and released its permit); none is unstarted, waiting or running. *)
(* The code starts each goroutine before its sem.Acquire, so main's        *)
(* Acquire of the full capacity can win against goroutines that have not   *)
(* acquired yet: TLC refutes the invariant.                                *)
(***************************************************************************)
C1_DrainAtCompletion ==
  Completed => \A r \in Enumerated : Ended(r)

(***************************************************************************)
(* C2. Concurrency cap: at most numConcurrentRuns goroutines hold a permit *)
(* and so are in their fetch/encode/write section, and at most             *)
(* numConcurrentRuns ApplyBulk calls are in flight, also with more runs    *)
(* than permits.                                                           *)
(***************************************************************************)
C2_ConcurrencyCap ==
  /\ Cardinality({r \in RunIds : Holding(r)}) <= numConcurrentRuns
  /\ Cardinality({r \in RunIds : InFlightApply(r)}) <= numConcurrentRuns
  /\ \A r \in RunIds : Holding(r) => permits[r] = 1

\* More runs than permits: the cap is reached with both holders inside
\* ApplyBulk while another goroutine waits.
C2_Witness ==
  /\ Len(runs) > numConcurrentRuns
  /\ Cardinality({r \in RunIds : InFlightApply(r)}) = numConcurrentRuns
  /\ \E r \in RunIds : tpc[r] = "waiting"

(***************************************************************************)
(* C3. Acquire-before-start: the number of goroutines that have been       *)
(* started and have not finished is at most numConcurrentRuns, because a   *)
(* started goroutine already holds its permit. The code's go statement     *)
(* precedes the Acquire, so the dispatch loop never blocks: TLC refutes    *)
(* the invariant.                                                          *)
(***************************************************************************)
C3_StartedWithinCap ==
  Cardinality({r \in RunIds : Live(r)}) <= numConcurrentRuns

(***************************************************************************)
(* C4. Permit release on every exit path: a goroutine holds exactly one    *)
(* permit from its Acquire to its return and none afterwards, whether it   *)
(* returns on one of the five skips, after a failed ApplyBulk or after     *)
(* success; the semaphore's count is the sum of the permits held, between  *)
(* 0 and numConcurrentRuns; when no goroutine is between Acquire and       *)
(* return, no permit is held by a goroutine.                               *)
(***************************************************************************)
C4_PermitReleased ==
  /\ \A r \in RunIds : permits[r] = IF Holding(r) THEN 1 ELSE 0
  /\ permits[Main] \in {0, numConcurrentRuns}
  /\ sem.cur = SumOver(permits, Tasks)
  /\ sem.cur >= 0 /\ sem.cur <= numConcurrentRuns
  /\ (\A r \in RunIds : ~Holding(r)) => sem.cur = permits[Main]

\* One goroutine returned on a skip, the other after its final ApplyBulk
\* failed, and the pool is whole again.
C4_Witness ==
  /\ \E r \in Enumerated : Ended(r) /\ Skippable(Served(r))
  /\ \E r \in Enumerated : Ended(r) /\ applyRes[r] = "err" /\ Len(calls[r]) = 2
  /\ sem.cur = 0

(***************************************************************************)
(* Vocabulary of the batching properties.                                  *)
(***************************************************************************)
\* Goroutine r took a step.
Stepped(r) ==
  <<tpc[r], ri[r], si[r], muts[r], calls[r], applyRes[r]>>' #
  <<tpc[r], ri[r], si[r], muts[r], calls[r], applyRes[r]>>

CellCount(res) == IF Len(res.Subtests) = 0 THEN 1 ELSE Len(res.Subtests)

RECURSIVE CellsBefore(_, _)
\* The number of cells of the first n results.
CellsBefore(results, n) ==
  IF n = 0 THEN 0 ELSE CellsBefore(results, n - 1) + CellCount(results[n])

\* The number of set(...) calls goroutine r has completed.
Appended(r) == CellsBefore(report[r], ri[r] - 1) + si[r] - 1

SizedCalls(r) == {k \in 1..Len(calls[r]) : ~calls[r][k].final}

FinalCalls(r) == {k \in 1..Len(calls[r]) : calls[r][k].final}

RECURSIVE MutationsIn(_)
\* The number of mutations handed to ApplyBulk by a list of calls.
MutationsIn(cs) == IF cs = <<>> THEN 0 ELSE Len(Head(cs).muts) + MutationsIn(Tail(cs))

\* The pending cells that no ApplyBulk call carries yet.
Unsent(r) ==
  IF tpc[r] \in {"apply", "finalApply", "release", "done"} THEN 0 ELSE Len(muts[r])

BatchBounds(r) ==
  /\ Len(muts[r]) <= maxMutationsPerBatch
  /\ Len(rows[r]) = Len(muts[r])
  /\ \A k \in 1..Len(calls[r]) :
       /\ Len(calls[r][k].muts) >= 1
       /\ Len(calls[r][k].muts) <= maxMutationsPerBatch
       /\ Len(calls[r][k].rows) = Len(calls[r][k].muts)

(***************************************************************************)
(* C5. Batch size bound with flush-then-append: the pending list never     *)
(* holds more than maxMutationsPerBatch entries; a set that finds exactly  *)
(* maxMutationsPerBatch pending calls ApplyBulk with those entries, then   *)
(* resets the list and appends the new cell as its first entry; a set that *)
(* finds fewer appends without calling; every ApplyBulk call carries       *)
(* between 1 and maxMutationsPerBatch mutations.                           *)
(***************************************************************************)
C5_BatchBound ==
  [][\A r \in RunIds :
       /\ BatchBounds(r)'
       /\ (tpc[r] = "encode" /\ Len(muts[r]) = maxMutationsPerBatch /\ Stepped(r)) =>
            /\ tpc'[r] = "apply"
            /\ calls'[r] = Append(calls[r], [rows |-> rows[r], muts |-> muts[r], final |-> FALSE])
            /\ muts'[r] = muts[r]
       /\ (tpc[r] = "apply" /\ Stepped(r)) =>
            /\ muts'[r] = <<CurMut(r)>>
            /\ rows'[r] = <<CurRow(r)>>
            /\ calls'[r] = calls[r]
       /\ (tpc[r] = "encode" /\ Len(muts[r]) < maxMutationsPerBatch /\ Stepped(r)) =>
            /\ muts'[r] = Append(muts[r], CurMut(r))
            /\ rows'[r] = Append(rows[r], CurRow(r))
            /\ calls'[r] = calls[r]]_vars

\* A full batch has been written and the cell that triggered it is alone
\* in the fresh batch.
C5_Witness ==
  \E r \in Enumerated :
    /\ tpc[r] \in {"encode", "flush"}
    /\ Len(calls[r]) = 1
    /\ Len(calls[r][1].muts) = maxMutationsPerBatch
    /\ Len(muts[r]) = 1

(***************************************************************************)
(* C6. Flush timing: every ApplyBulk call made by set carries exactly      *)
(* maxMutationsPerBatch mutations (never fewer), and one was made each     *)
(* time a cell arrived at a full list, so the cells appended so far are    *)
(* the full batches written plus the pending ones; once the report is      *)
(* consumed the non-empty remainder is written by exactly one final        *)
(* ApplyBulk, and no final call is made before that or by a skipped run.   *)
(***************************************************************************)
C6_FlushTiming ==
  \A r \in RunIds :
    /\ \A k \in SizedCalls(r) : Len(calls[r][k].muts) = maxMutationsPerBatch
    /\ Len(muts[r]) <= maxMutationsPerBatch
    /\ Cardinality(SizedCalls(r)) * maxMutationsPerBatch
         + (IF tpc[r] = "apply" THEN 0 ELSE Len(muts[r])) = Appended(r)
    /\ IF tpc[r] \in {"finalApply", "release", "done"} /\ report[r] # <<>>
       THEN /\ FinalCalls(r) = {Len(calls[r])}
            /\ calls[r][Len(calls[r])].muts = muts[r]
            /\ muts[r] # <<>>
            /\ Appended(r) = CellsBefore(report[r], Len(report[r]))
       ELSE FinalCalls(r) = {}

\* A report of maxMutationsPerBatch + 1 cells is written by one call made
\* by set and one final call with the remaining cell.
C6_Witness ==
  \E r \in Enumerated :
    /\ Ended(r)
    /\ Len(calls[r]) = 2
    /\ ~calls[r][1].final /\ calls[r][2].final
    /\ Len(calls[r][2].muts) = 1

(***************************************************************************)
(* C7. Skip isolation: a goroutine whose fetch ends in one of the five     *)
(* skippable outcomes goes straight to its return, with no ApplyBulk call  *)
(* and no cell, in a step that changes nothing of any other goroutine and  *)
(* does not end the process; the process ends only by main's return, by a  *)
(* failed client or query, or by the monitor; and every other goroutine    *)
(* that returns has written exactly the cells of its own report.           *)
(***************************************************************************)
TaskState(q) == <<tpc[q], report[q], ri[q], si[q], rows[q], muts[q], calls[q], applyRes[q]>>

C7_SkipIsolation ==
  [][\A r \in DOMAIN store :
       /\ (tpc[r] = "fetch" /\ Skippable(Served(r)) /\ Stepped(r)) =>
            /\ tpc'[r] = "release"
            /\ proc' = proc
            /\ \A q \in RunIds \ {r} : TaskState(q)' = TaskState(q)
       /\ Skippable(Served(r)) => calls'[r] = <<>> /\ muts'[r] = <<>> /\ rows'[r] = <<>>
       /\ (tpc'[r] = "done" /\ ~Skippable(Served(r))) =>
            MutationsIn(calls'[r]) = CellsBefore(Served(r).Results, Len(Served(r).Results))
       /\ proc' # proc =>
            \/ proc' = "exited" /\ mainPC = "report"
            \/ proc' = "clientFailed" /\ mainPC \in {"dsClient", "btClient"}
            \/ proc' = "queryFailed" /\ mainPC = "getRuns"
            \/ proc' = "outOfMemory" /\ heap' > maxHeapAlloc]_vars

\* One run was skipped on a JSON decode error and returned without a call
\* while its sibling wrote its whole report in two calls.
C7_Witness ==
  \E r, q \in Enumerated :
    /\ r # q
    /\ Served(r).kind = "unmarshalError" /\ Ended(r) /\ calls[r] = <<>>
    /\ ~Skippable(Served(q)) /\ Ended(q) /\ Len(calls[q]) = 2

(***************************************************************************)
(* C8. Write failures are neither retried nor fatal: whatever an ApplyBulk *)
(* call returns (success, per-row errors or a whole failure), the          *)
(* goroutine resets the pending list to the one new cell, keeps going,     *)
(* does not end the process, and reaches its return and releases its       *)
(* permit; no cell is handed to ApplyBulk twice: the mutations of all      *)
(* calls are the cells appended so far less the pending ones.              *)
(***************************************************************************)
C8_NoRetryNotFatal ==
  [][\A r \in RunIds :
       /\ (tpc[r] = "apply" /\ Stepped(r)) =>
            /\ applyRes'[r] \in ApplyOutcomes
            /\ muts'[r] = <<CurMut(r)>>
            /\ rows'[r] = <<CurRow(r)>>
            /\ calls'[r] = calls[r]
            /\ tpc'[r] \in {"encode", "flush"}
            /\ proc' = proc
       /\ (tpc[r] = "finalApply" /\ Stepped(r)) =>
            /\ applyRes'[r] \in ApplyOutcomes
            /\ calls'[r] = calls[r]
            /\ tpc'[r] = "release"
            /\ proc' = proc
       /\ (tpc[r] = "release" /\ Stepped(r)) => tpc'[r] = "done" /\ permits'[r] = 0
       /\ (MutationsIn(calls[r]) = Appended(r) - Unsent(r))']_vars

\* The call made by set failed as a whole; the goroutine went on and its
\* final call carries only the cell appended after the failure.
C8_Witness ==
  \E r \in Enumerated :
    /\ tpc[r] = "finalApply"
    /\ applyRes[r] = "err"
    /\ Len(calls[r]) = 2
    /\ calls[r][2].muts = muts[r]
    /\ Len(muts[r]) = 1

(***************************************************************************)
(* C9. RunSource is all-or-nothing: while getRuns iterates no goroutine    *)
(* exists; main dispatches only with the complete list; when the query     *)
(* fails, after any number of entities, the process ends with no goroutine *)
(* started, no fetch made and no ApplyBulk call issued.                    *)
(***************************************************************************)
NothingStarted ==
  \A r \in RunIds : tpc[r] = "none" /\ report[r] = <<>> /\ calls[r] = <<>> /\ permits[r] = 0

C9_AllOrNothing ==
  /\ mainPC \in {"dsClient", "btClient", "getRuns"} => NothingStarted
  /\ mainPC \notin {"dsClient", "btClient", "getRuns"} => runs = store
  /\ proc = "queryFailed" => NothingStarted /\ next = 1

\* The query failed after it had yielded entities.
C9_Witness ==
  /\ proc = "queryFailed"
  /\ Len(runs) >= 1
  /\ Len(runs) < Len(store)

(***************************************************************************)
(* C10. Value encoding: the value of every cell is the literal composition *)
(* selected by (message present, sub-result present, sub-message present), *)
(* a nil message and an empty message both counting as absent.             *)
(***************************************************************************)
Absent(m) == m = NilStr \/ m = Ptr("")

\* The table of the six compositions.
TableValue(res, sub) ==
  LET mp == ~Absent(res.Message)
      sp == sub # <<>>
      smp == sp /\ ~Absent(sub[1].Message)
  IN CASE ~mp /\ ~sp -> res.Status
       [] mp /\ ~sp -> res.Status \o "#" \o res.Message[1]
       [] ~mp /\ sp /\ ~smp -> res.Status \o "$" \o sub[1].Status
       [] ~mp /\ sp /\ smp -> res.Status \o "$" \o sub[1].Status \o "#" \o sub[1].Message[1]
       [] mp /\ sp /\ ~smp -> res.Status \o "#" \o res.Message[1] \o "$" \o sub[1].Status
       [] mp /\ sp /\ smp ->
            res.Status \o "#" \o res.Message[1] \o "$" \o sub[1].Status \o "#" \o sub[1].Message[1]

ResultOrigins(res) ==
  IF Len(res.Subtests) = 0
  THEN <<[res |-> res, sub |-> <<>>]>>
  ELSE [j \in 1..Len(res.Subtests) |-> [res |-> res, sub |-> <<res.Subtests[j]>>]]

RECURSIVE Origins(_)
\* The (result, sub-result) pairs of a report in iteration order.
Origins(results) ==
  IF results = <<>> THEN <<>> ELSE ResultOrigins(Head(results)) \o Origins(Tail(results))

RECURSIVE SizedMutations(_)
\* The mutations of the calls made by set, in call order.
SizedMutations(cs) ==
  IF cs = <<>> THEN <<>>
  ELSE (IF Head(cs).final THEN <<>> ELSE Head(cs).muts) \o SizedMutations(Tail(cs))

\* Every mutation goroutine r has built so far, in order.
Emitted(r) == SizedMutations(calls[r]) \o (IF tpc[r] = "apply" THEN <<>> ELSE muts[r])

C10_ValueEncoding ==
  \A r \in RunIds :
    /\ Len(Emitted(r)) = Appended(r)
    /\ \A k \in 1..Len(Emitted(r)) :
         LET o == Origins(report[r])[k]
         IN Emitted(r)[k].value = TableValue(o.res, o.sub)

\* A result with message "m" whose first sub-result has message "n" and
\* whose second has the empty message was written as two cells.
C10_Witness ==
  \E r \in Enumerated :
    /\ Ended(r)
    /\ Len(report[r]) = 1
    /\ report[r][1].Message = Ptr("m")
    /\ Len(report[r][1].Subtests) = 2
    /\ report[r][1].Subtests[1].Message = Ptr("n")
    /\ report[r][1].Subtests[2].Message = Ptr("")
    /\ Len(calls[r]) = 1
    /\ calls[r][1].muts[1].value = "OK#m$" \o report[r][1].Subtests[1].Status \o "#n"
    /\ calls[r][1].muts[2].value = "OK#m$" \o report[r][1].Subtests[2].Status

(***************************************************************************)
(* Vocabulary of the row properties.                                       *)
(***************************************************************************)
RECURSIVE SizedRows(_)
\* The row keys of the calls made by set, in call order.
SizedRows(cs) ==
  IF cs = <<>> THEN <<>>
  ELSE (IF Head(cs).final THEN <<>> ELSE Head(cs).rows) \o SizedRows(Tail(cs))

\* Every row key goroutine r has built so far, in order.
EmittedRows(r) == SizedRows(calls[r]) \o (IF tpc[r] = "apply" THEN <<>> ELSE rows[r])

C12_RowKeyQualified ==
  \A r \in RunIds : \A k \in 1..Len(EmittedRows(r)) :
    LET o == Origins(report[r])[k]
    IN EmittedRows(r)[k] =
         IF o.sub = <<>> THEN o.res.Test ELSE o.res.Test \o ":" \o o.sub[1].Name

(***************************************************************************)
(* C13. End-to-end scenario: three runs, one served a 404, one malformed   *)
(* JSON and one a report of two results whose first has one sub-result,    *)
(* with maxMutationsPerBatch above the cell count.                         *)
(***************************************************************************)
IsScenario ==
  /\ Len(store) = 3
  /\ {Served(r) : r \in 1..3} =
       {[kind |-> "notOK", Results |-> <<>>], [kind |-> "unmarshalError", Results |-> <<>>],
        ScenarioReport}

PassOver == \A r \in DOMAIN store : Ended(r)

Producers == {r \in RunIds : calls[r] # <<>>}

PassCalls == SumOver([r \in RunIds |-> Len(calls[r])], RunIds)

PassCells == SumOver([r \in RunIds |-> MutationsIn(calls[r])], RunIds)

\* The claim as stated: the run with the report produces 3 cells (a
\* top-level cell and a sub-result cell for the first result, a top-level
\* cell for the second). The code writes no top-level cell for a result
\* that has sub-results: TLC refutes the invariant.
C13_ScenarioThreeCells ==
  (IsScenario /\ PassOver) =>
    /\ Cardinality(Producers) = 1
    /\ PassCells = 3
    /\ PassCalls = 1

\* As amended: the run with the report produces 2 cells, the sub-result
\* cell of the first result and the top-level cell of the second, written
\* together by the one ApplyBulk call of the pass; the two other runs are
\* skipped and call nothing.
C13_ScenarioTwoCells ==
  IsScenario =>
    /\ maxMutationsPerBatch > 2
    /\ PassCalls <= 1
    /\ \A r \in DOMAIN store :
         /\ Skippable(Served(r)) => calls[r] = <<>> /\ muts[r] = <<>>
         /\ (~Skippable(Served(r)) /\ tpc[r] \in {"finalApply", "release", "done"}) =>
              /\ Len(calls[r]) = 1
              /\ calls[r][1].rows = <<"a", "b">>
              /\ calls[r][1].muts =
                   <<[family |-> outputBTFamily, column |-> colID(store[r]), ts |-> ts,
                      value |-> "OK$PASS"],
                     [family |-> outputBTFamily, column |-> colID(store[r]), ts |-> ts,
                      value |-> "OK"]>>
    /\ PassOver => Cardinality(Producers) = 1 /\ PassCells = 2 /\ PassCalls = 1

\* The pass of the scenario is over: one call of two cells was made.
C13_Witness ==
  /\ IsScenario
  /\ PassOver
  /\ PassCells = 2
  /\ PassCalls = 1

(***************************************************************************)
(* C14. MemoryGuard abort: a tick of monitor that reads a heap sample      *)
(* above maxHeapAlloc ends the process in that tick, without sleeping and  *)
(* without another sample, and nothing steps afterwards (no goroutine, no  *)
(* ApplyBulk call); a tick that reads a sample at or below maxHeapAlloc    *)
(* changes nothing but the monitor, which sleeps and then samples again;   *)
(* the process is ended as out of memory by such a tick only.              *)
(***************************************************************************)
MonitorTick == monPC = "read" /\ (monPC' # monPC \/ heap' # heap)

C14_MemoryGuard ==
  [][/\ proc # "outOfMemory"
     /\ MonitorTick =>
          /\ UNCHANGED <<mainVars, taskVars, sem, permits>>
          /\ IF heap' > maxHeapAlloc
             THEN proc' = "outOfMemory" /\ monPC' = "read"
             ELSE proc' = proc /\ monPC' = "sleep"
     /\ (monPC = "sleep" /\ monPC' # monPC) =>
          /\ monPC' = "read"
          /\ UNCHANGED <<proc, heap, mainVars, taskVars, sem, permits>>
     /\ proc' = "outOfMemory" => MonitorTick /\ heap' > maxHeapAlloc]_vars

\* The monitor ended the process while an ApplyBulk call was in flight.
C14_Witness ==
  /\ proc = "outOfMemory"
  /\ heap = maxHeapAlloc + 1
  /\ monPC = "read"
  /\ \E r \in RunIds : tpc[r] = "apply"

(***************************************************************************)
(* C15. Failures are invisible in the outcome: the process ends only by    *)
(* main's return, a failed client, a failed query or the monitor; when     *)
(* main returns it has logged the number of enumerated runs, whichever     *)
(* runs were skipped and whichever ApplyBulk calls failed; and main never  *)
(* waits for the semaphore without a goroutine holding a permit that will  *)
(* wake it.                                                                *)
(***************************************************************************)
C15_OutcomeBlind ==
  /\ proc \in {"running", "exited", "clientFailed", "queryFailed", "outOfMemory"}
  /\ Completed <=> proc = "exited"
  /\ Completed => reported = Len(store) /\ runs = store
  /\ mainPC = "drainWait" => \E r \in RunIds : Holding(r)

\* main returned and logged 2 runs: one was skipped, the final ApplyBulk
\* of the other failed.
C15_Witness ==
  /\ proc = "exited"
  /\ reported = 2
  /\ \E r \in Enumerated : Ended(r) /\ Skippable(Served(r))
  /\ \E r \in Enumerated : Ended(r) /\ applyRes[r] = "err"

(***************************************************************************)
(* Vocabulary of the cell properties.                                      *)
(***************************************************************************)
Paired(rs, ms) == [k \in 1..Len(ms) |-> [row |-> rs[k], mut |-> ms[k]]]

RECURSIVE AllCells(_)
\* The (row key, mutation) pairs of a list of ApplyBulk calls, in call order.
AllCells(cs) ==
  IF cs = <<>> THEN <<>> ELSE Paired(Head(cs).rows, Head(cs).muts) \o AllCells(Tail(cs))

\* The cells goroutine r has handed to ApplyBulk so far.
Handed(r) == AllCells(calls[r])

\* The cells of goroutine r that no ApplyBulk call carries yet.
Pending(r) == IF Unsent(r) = 0 THEN <<>> ELSE Paired(rows[r], muts[r])

(***************************************************************************)
(* C16. At most one write per (row, column) per run: over all ApplyBulk    *)
(* calls of one goroutine no (row key, column) pair occurs in two          *)
(* mutations.  Every sub-result of a result is written to the row of the   *)
(* bare test identifier (C12), in the run's one column: TLC refutes the    *)
(* invariant with a result that has two sub-results.                       *)
(***************************************************************************)
C16_OneWritePerCell ==
  \A r \in RunIds :
    \A i, j \in 1..Len(Handed(r)) :
      i < j => <<Handed(r)[i].row, Handed(r)[i].mut.column>> #
               <<Handed(r)[j].row, Handed(r)[j].mut.column>>

(***************************************************************************)
(* C17. Cell count per result: when the goroutine of a non-empty report    *)
(* has returned, the mutations it handed to ApplyBulk number the sum over  *)
(* its results of max(1, number of sub-results), and they lie result after *)
(* result: the cells of result j are the next max(1, number of             *)
(* sub-results) ones, one per sub-result (its status is in the value) and  *)
(* none for the parent alone.                                              *)
(***************************************************************************)
Max(a, b) == IF a >= b THEN a ELSE b

Contribution(res) == Max(1, Len(res.Subtests))

\* The index in Handed(r) of the cell before the first cell of result j.
Offset(results, j) ==
  SumOver([i \in 1..Len(results) |-> Contribution(results[i])], 1..(j - 1))

C17_CellCount ==
  \A r \in DOMAIN store :
    (Ended(r) /\ ~Skippable(Served(r))) =>
      LET results == Served(r).Results
      IN /\ MutationsIn(calls[r]) = Offset(results, Len(results) + 1)
         /\ \A j \in 1..Len(results) :
              LET res == results[j]
                  at == Offset(results, j)
              IN IF Len(res.Subtests) = 0
                 THEN /\ Handed(r)[at + 1].row = res.Test
                      /\ Handed(r)[at + 1].mut.value = TableValue(res, <<>>)
                 ELSE \A k \in 1..Len(res.Subtests) :
                        /\ Handed(r)[at + k].row = res.Test
                        /\ Handed(r)[at + k].mut.value =
                             TableValue(res, <<res.Subtests[k]>>)

\* A report of a result with two sub-results and a result with none was
\* written as three cells.
C17_Witness ==
  \E r \in Enumerated :
    /\ Ended(r)
    /\ Len(report[r]) = 2
    /\ Len(report[r][1].Subtests) = 2
    /\ Len(report[r][2].Subtests) = 0
    /\ MutationsIn(calls[r]) = 3

(***************************************************************************)
(* C18. Batches are private, complete and ordered: the cells a goroutine   *)
(* has handed to ApplyBulk, followed by its pending batch, are always the  *)
(* first cells of its own run's report in result and sub-result order,     *)
(* each row key beside its own mutation and each mutation in its own       *)
(* run's column; when the goroutine has returned, the calls carry every    *)
(* cell of the report exactly once; a run that was skipped made no call.   *)
(* This holds whatever the other goroutines do and whatever ApplyBulk      *)
(* returned.                                                               *)
(***************************************************************************)
ExpectedCells(r) ==
  LET os == Origins(Served(r).Results)
  IN [k \in 1..Len(os) |->
        [row |-> os[k].res.Test,
         mut |-> [family |-> "runs", column |-> runID(store[r]), ts |-> ts,
                  value |-> TableValue(os[k].res, os[k].sub)]]]

C18_BatchesPrivateOrdered ==
  \A r \in DOMAIN store :
    LET got == Handed(r) \o Pending(r)
    IN /\ Len(got) <= Len(ExpectedCells(r))
       /\ \A k \in 1..Len(got) : got[k] = ExpectedCells(r)[k]
       /\ \A c \in 1..Len(calls[r]) : Len(calls[r][c].rows) = Len(calls[r][c].muts)
       /\ Skippable(Served(r)) => got = <<>>
       /\ (Ended(r) /\ ~Skippable(Served(r))) => Handed(r) = ExpectedCells(r)

\* Two goroutines wrote concurrently: one has returned after two calls,
\* the first call of the other failed and it went on to its last cell.
C18_Witness ==
  \E r1, r2 \in Enumerated :
    /\ r1 # r2
    /\ Ended(r1) /\ Len(calls[r1]) = 2
    /\ tpc[r2] = "flush" /\ applyRes[r2] = "err"
    /\ Len(calls[r2]) = 1 /\ Len(muts[r2]) = 1

(***************************************************************************)
(* Vocabulary of the column properties.                                    *)
(***************************************************************************)
\* browser-version-os-osversion@hash#createdAt, the time to the second.
IdentityString(run) ==
  run.BrowserName \o "-" \o run.BrowserVersion \o "-" \o run.OSName \o "-" \o
  run.OSVersion \o "@" \o run.FullRevisionHash \o "#T" \o ToString(run.CreatedAt.sec) \o "Z"

\* Every cell goroutine r has built so far.
Built(r) == Handed(r) \o Pending(r)

OwnColumn(r) ==
  \A k \in 1..Len(Built(r)) : Built(r)[k].mut.column = IdentityString(store[r])

(***************************************************************************)
(* C19 as stated. Distinct column per run: every cell of a run has the     *)
(* run's identity string as its column, and two different runs never       *)
(* write the same column.  TLC refutes it with two runs that agree in      *)
(* every identity field and were created within the same second.           *)
(***************************************************************************)
C19_DistinctColumnPerRun ==
  /\ \A r \in DOMAIN store : OwnColumn(r)
  /\ \A r1, r2 \in DOMAIN store :
       r1 # r2 =>
         \A k1 \in 1..Len(Built(r1)) : \A k2 \in 1..Len(Built(r2)) :
           Built(r1)[k1].mut.column # Built(r2)[k2].mut.column

(***************************************************************************)
(* C19 as amended. Every cell of a run has the run's identity string as    *)
(* its column; two different runs write the same column exactly when       *)
(* their identity strings are equal, which is so whenever they agree in    *)
(* the five identity fields and in the second of creation; two runs with   *)
(* different identity strings never write the same (row, column) cell.     *)
(***************************************************************************)
SameToTheSecond(a, b) ==
  /\ a.BrowserName = b.BrowserName /\ a.BrowserVersion = b.BrowserVersion
  /\ a.OSName = b.OSName /\ a.OSVersion = b.OSVersion
  /\ a.FullRevisionHash = b.FullRevisionHash
  /\ a.CreatedAt.sec = b.CreatedAt.sec

C19_ColumnIsIdentity ==
  /\ \A r \in DOMAIN store : OwnColumn(r)
  /\ \A r1, r2 \in DOMAIN store :
       r1 # r2 =>
         \A k1 \in 1..Len(Built(r1)) : \A k2 \in 1..Len(Built(r2)) :
           /\ Built(r1)[k1].mut.column = Built(r2)[k2].mut.column
                <=> IdentityString(store[r1]) = IdentityString(store[r2])
           /\ SameToTheSecond(store[r1], store[r2]) =>
                Built(r1)[k1].mut.column = Built(r2)[k2].mut.column
           /\ IdentityString(store[r1]) # IdentityString(store[r2]) =>
                <<Built(r1)[k1].row, Built(r1)[k1].mut.column>> #
                <<Built(r2)[k2].row, Built(r2)[k2].mut.column>>

\* Two runs created in the same second, 5 ns apart, each wrote the cell
\* (row "a", the column of both); a third case has runs of different
\* browser fields whose identity strings coincide.
C19_Witness ==
  /\ Len(store) = 2
  /\ SameToTheSecond(store[1], store[2])
  /\ store[1].CreatedAt # store[2].CreatedAt
  /\ Ended(1) /\ Ended(2)
  /\ Handed(1) # <<>> /\ Handed(2) # <<>>
  /\ Handed(1)[1].row = Handed(2)[1].row
  /\ Handed(1)[1].mut.column = Handed(2)[1].mut.column

(***************************************************************************)
(* C20. The scheduler terminates without deadlock: for run lists shorter   *)
(* than, as long as and longer than the capacity of the semaphore, and the *)
(* empty one, when runnable goroutines are scheduled and every fetch and   *)
(* every ApplyBulk call returns, the process ends: main logs "Finished     *)
(* processing", unless a client, the query or the monitor ended the        *)
(* process before; and whenever main waits in its Acquire of the full      *)
(* capacity, the Acquire succeeds later, unless the monitor ends the       *)
(* process first.                                                          *)
(***************************************************************************)
C20_Termination ==
  /\ <>(Completed \/ proc \in {"clientFailed", "queryFailed", "outOfMemory"})
  /\ [](mainPC = "drainWait" => <>(mainPC = "report" \/ proc = "outOfMemory"))

\* main obtained the full capacity after a list of more runs than the
\* capacity, all goroutines having returned.
C20_Witness ==
  /\ Len(runs) > numConcurrentRuns
  /\ \A r \in Enumerated : Ended(r)
  /\ \E r \in Enumerated : calls[r] # <<>>
  /\ permits[Main] = numConcurrentRuns
  /\ Completed
====
